---- MODULE Spec2Model ----
(***************************************************************************)
(* A model of my::shared_ptr<T> and my::ControlBlock<T>                    *)
(* (src/homework/shared_ptr/shared_ptr.hpp).                               *)
(*                                                                         *)
(* The heap of ControlBlocks is a sequence: block b is heap[b], block ids  *)
(* are never reused, 0 is nullptr.  A payload address is named after the   *)
(* block that first adopts it (the caller passes a fresh `new T`), 0 is    *)
(* nullptr.  Each block carries, besides the fields of the class, ghost    *)
(* counters of what was done to it: calls (call_deleter invocations),      *)
(* freed (`delete ptr` executed by default_deleter), custom (invocations   *)
(* of a user-supplied deleter), deletes (`delete control_block_ptr`).      *)
(***************************************************************************)
EXTENDS Integers, Sequences, FiniteSets

\* ------------------------------------------------------------------ bounds
NumHandles == 3          \* handle objects (slots) of the program
MaxBlocks == 2           \* ControlBlocks ever allocated
MaxGarbage == 1          \* values 0..MaxGarbage a read of freed memory may yield
SizeBits == 16           \* modelled width of size_t (the counters wrap at 2^SizeBits)
MaxRefs == 3             \* a copy is made only of a block whose count is below this

Handles == 1..NumHandles
Threads == Handles       \* thread t destroys, or constructs by copy, handle t
SizeMod == 2^SizeBits
NULL == 0

VARIABLES
    handles,   \* handles[h]: [live, ptr_, control_block_ptr]
    heap,      \* sequence of ControlBlock records
    ub,        \* first undefined behaviour executed, "none" if none
    halted,    \* the process has faulted
    lastOp,    \* ghost: the last operation and the block its handle had before it
    pc,        \* pc[t]: position of thread t inside ~shared_ptr / the copy constructor
    reg,       \* reg[t]: value thread t loaded from shared_refs_
    src        \* src[t]: handle thread t is copying from (0 if none)

vars == <<handles, heap, ub, halted, lastOp, pc, reg, src>>

\* ------------------------------------------------------------ ControlBlock
\* ControlBlock(T* ptr) / ControlBlock(T* ptr, deleter): shared_refs_ = 1, weak_refs_ = 0.
NewControlBlock(ptr, deleter) ==
    [ptr_ |-> ptr, shared_refs_ |-> 1, weak_refs_ |-> 0, deleter_ptr_ |-> deleter,
     calls |-> 0, freed |-> 0, custom |-> 0, deletes |-> 0]

Alive(hp, b) == hp[b].deletes = 0

\* std::atomic<size_t> shared_refs() const { return shared_refs_.load(); }
shared_refs(hp, b) == hp[b].shared_refs_

weak_refs(hp, b) == hp[b].weak_refs_

\* Mutant of call_deleter: the default deleter is invoked whatever the block stores.
call_deleter_default(hp, b) ==
    [hp EXCEPT ![b].calls = @ + 1,
               ![b].freed = IF hp[b].ptr_ # NULL THEN @ + 1 ELSE @]

\* default_deleter: `if (ptr) delete ptr`; a user-supplied deleter is just invoked.
call_deleter(hp, b) ==
    [hp EXCEPT ![b].calls = @ + 1,
               ![b].freed = IF hp[b].deleter_ptr_ = "default" /\ hp[b].ptr_ # NULL
                            THEN @ + 1 ELSE @,
               ![b].custom = IF hp[b].deleter_ptr_ = "custom" THEN @ + 1 ELSE @]

\* Mutant of increment_shared: the count is stored back unchanged.
increment_shared_lost(hp, b) == hp

\* shared_refs_.exchange(shared_refs_ + 1), executed without interruption.
increment_shared(hp, b) ==
    [hp EXCEPT ![b].shared_refs_ = (@ + 1) % SizeMod]

\* Mutant of decrement_shared: the count is stored back unchanged.
decrement_shared_lost(hp, b) == hp

\* if (shared_refs_) shared_refs_.exchange(shared_refs_ - 1), executed without interruption.
decrement_shared(hp, b) ==
    IF hp[b].shared_refs_ # 0
    THEN [hp EXCEPT ![b].shared_refs_ = (@ - 1) % SizeMod]
    ELSE hp

\* delete control_block_ptr
delete_block(hp, b) == [hp EXCEPT ![b].deletes = @ + 1]

\* What the memory of block b may hold when an operation touches it: its fields
\* while it is allocated; once freed, the counter may be stale or overwritten.
Touch(hp, b) ==
    IF Alive(hp, b) THEN {hp}
    ELSE {[hp EXCEPT ![b].shared_refs_ = v] : v \in (0..MaxGarbage) \cup {hp[b].shared_refs_}}

\* The undefined behaviour recorded when block b is touched (first one is kept).
UbTouch(hp, b) == IF ub = "none" /\ ~Alive(hp, b) THEN "use_after_free" ELSE ub

\* ------------------------------------------------------------ shared_ptr
EmptySlot == [live |-> FALSE, ptr_ |-> NULL, control_block_ptr |-> NULL]

NoOp == [op |-> "init", b |-> NULL]

\* Ghost: operation `name` on handle h, whose control_block_ptr was b before it.
Op(name, h, o) == [op |-> name, b |-> handles[h].control_block_ptr]

\* A new handle object takes the first slot that holds no handle (the slots are
\* interchangeable names of the program's handle objects).
FirstFree(h) == ~handles[h].live /\ \A g \in 1..(h - 1) : handles[g].live

\* long use_count() const
use_count(h) ==
    IF handles[h].control_block_ptr = NULL THEN 0
    ELSE shared_refs(heap, handles[h].control_block_ptr)

\* T* get() const
get(h) == handles[h].ptr_

\* explicit operator bool() const
bool(h) == handles[h].control_block_ptr # NULL

\* An operation starts only in a process that has not faulted and has executed no
\* undefined behaviour: what follows an undefined operation is not modelled.
Running == ub = "none" /\ ~halted /\ \A t \in Threads : pc[t] = "idle"

\* The bound of the model on a counter: block b (if any) can take one more owner.
Room(b) == b # NULL => heap[b].shared_refs_ < MaxRefs

ThreadsIdle == UNCHANGED <<pc, reg, src>>

Init ==
    /\ handles = [h \in Handles |-> EmptySlot]
    /\ heap = <<>>
    /\ ub = "none"
    /\ halted = FALSE
    /\ lastOp = NoOp
    /\ pc = [t \in Threads |-> "idle"]
    /\ reg = [t \in Threads |-> 0]
    /\ src = [t \in Threads |-> 0]

\* shared_ptr(T* ptr = nullptr) and shared_ptr(T* ptr, deleter)
ConstructBody(h, ptr, deleter) ==
    /\ Running
    /\ FirstFree(h)
    /\ ptr # NULL => Len(heap) < MaxBlocks
    /\ IF ptr # NULL
       THEN /\ heap' = Append(heap, NewControlBlock(ptr, deleter))
            /\ handles' = [handles EXCEPT ![h] =
                   [live |-> TRUE, ptr_ |-> ptr, control_block_ptr |-> Len(heap) + 1]]
       ELSE /\ heap' = heap
            /\ handles' = [handles EXCEPT ![h] =
                   [live |-> TRUE, ptr_ |-> NULL, control_block_ptr |-> NULL]]
    /\ UNCHANGED <<ub, halted>>
    /\ ThreadsIdle

Construct(h) ==
    \E ptr \in {NULL, Len(heap) + 1} :
        /\ ConstructBody(h, ptr, "default")
        /\ lastOp' = Op("Construct", h, 0)

ConstructWithDeleter(h) ==
    \E ptr \in {NULL, Len(heap) + 1} :
        /\ ConstructBody(h, ptr, "custom")
        /\ lastOp' = Op("ConstructWithDeleter", h, 0)

\* shared_ptr(const shared_ptr& other): control_block_ptr->increment_shared() is
\* executed whether or not control_block_ptr is null.  On a null pointer that is
\* undefined: the process faults, or the access goes unnoticed.
CopyConstructBody(h, o) ==
    /\ Running
    /\ FirstFree(h)
    /\ handles[o].live
    /\ Room(handles[o].control_block_ptr)
    /\ LET b == handles[o].control_block_ptr IN
       IF b = NULL
       THEN /\ ub' = IF ub = "none" THEN "null_deref" ELSE ub
            /\ heap' = heap
            /\ \/ halted' = TRUE /\ handles' = handles
               \/ /\ halted' = FALSE
                  /\ handles' = [handles EXCEPT ![h] =
                         [live |-> TRUE, ptr_ |-> handles[o].ptr_, control_block_ptr |-> NULL]]
       ELSE /\ ub' = UbTouch(heap, b)
            /\ \/ ~Alive(heap, b) /\ halted' = TRUE /\ handles' = handles /\ heap' = heap
               \/ /\ halted' = FALSE
                  /\ \E hp \in Touch(heap, b) : heap' = increment_shared(hp, b)
                  /\ handles' = [handles EXCEPT ![h] =
                         [live |-> TRUE, ptr_ |-> handles[o].ptr_, control_block_ptr |-> b]]
    /\ ThreadsIdle

CopyConstruct(h, o) ==
    /\ CopyConstructBody(h, o)
    /\ lastOp' = Op("CopyConstruct", h, o)

\* Mutant of Release: the block is deleted without call_deleter().
Release_noDeleter(hp, b) ==
    LET h1 == decrement_shared(hp, b)
    IN  IF shared_refs(h1, b) = 0 /\ weak_refs(h1, b) = 0 THEN delete_block(h1, b) ELSE h1

\* ~shared_ptr()
Release(hp, b) ==
    LET h1 == decrement_shared(hp, b)
        h2 == IF shared_refs(h1, b) = 0 THEN call_deleter(h1, b) ELSE h1
    IN  IF shared_refs(h2, b) = 0 /\ weak_refs(h2, b) = 0 THEN delete_block(h2, b) ELSE h2

\* The undefined behaviour recorded when a block is released by hp -> hq.
UbFree(u, hq, b) == IF u = "none" /\ hq[b].deletes > 1 THEN "double_free" ELSE u

Destroy(h) ==
    /\ Running
    /\ handles[h].live
    /\ LET b == handles[h].control_block_ptr IN
       IF b = NULL
       THEN /\ UNCHANGED <<heap, ub, halted>>
            /\ handles' = [handles EXCEPT ![h] = EmptySlot]
       ELSE \/ ~Alive(heap, b) /\ halted' = TRUE /\ ub' = UbTouch(heap, b)
               /\ UNCHANGED <<heap, handles>>
            \/ /\ halted' = FALSE
               /\ \E hp \in Touch(heap, b) :
                     /\ heap' = Release(hp, b)
                     /\ ub' = UbFree(UbTouch(heap, b), heap', b)
               /\ handles' = [handles EXCEPT ![h] = EmptySlot]
    /\ lastOp' = Op("Destroy", h, 0)
    /\ ThreadsIdle

\* A move construction shared_ptr b(std::move(a)): the class declares no move
\* constructor (and none is generated, since it declares a copy constructor, both
\* assignments and a destructor), so overload resolution picks
\* shared_ptr(const shared_ptr&).
MoveConstruct(h, o) ==
    /\ CopyConstructBody(h, o)
    /\ lastOp' = Op("MoveConstruct", h, o)

\* Mutant of ReleaseIfLast: the old block is released whatever its count is.
ReleaseIfLast_always(hp, b) ==
    IF b # NULL THEN delete_block(call_deleter(hp, b), b) ELSE hp

\* The release of operator=(const shared_ptr&): only a last owner releases, and
\* nothing is decremented otherwise.
ReleaseIfLast(hp, b) ==
    IF b # NULL /\ shared_refs(hp, b) = 1
    THEN delete_block(call_deleter(hp, b), b)
    ELSE hp

\* Mutant of SameObject: the self-assignment test is missing.
SameObject_never(h, o) == FALSE

\* operator=(const shared_ptr&), line 156: `this != &other` compares identities.
SameObject(h, o) == h = o

\* shared_ptr& operator=(const shared_ptr& other)
CopyAssign(h, o) ==
    /\ Running
    /\ handles[h].live /\ handles[o].live
    /\ h # o => Room(handles[o].control_block_ptr)
    /\ lastOp' = Op("CopyAssign", h, o)
    /\ ThreadsIdle
    /\ IF SameObject(h, o)
       THEN UNCHANGED <<handles, heap, ub, halted>>
       ELSE LET bOld == handles[h].control_block_ptr
                bNew == handles[o].control_block_ptr
                touched == {b \in {bOld, bNew} : b # NULL}
                dead == \E b \in touched : ~Alive(heap, b)
            IN  \/ /\ dead
                   /\ halted' = TRUE
                   /\ ub' = (IF ub = "none" THEN "use_after_free" ELSE ub)
                   /\ UNCHANGED <<handles, heap>>
                \/ /\ halted' = FALSE
                   /\ \E hp0 \in (IF bOld = NULL THEN {heap} ELSE Touch(heap, bOld)) :
                      \E hp \in (IF bNew = NULL THEN {hp0} ELSE Touch(hp0, bNew)) :
                        LET h1 == ReleaseIfLast(hp, bOld)
                            h2 == IF bNew # NULL THEN increment_shared(h1, bNew) ELSE h1
                            uaf == dead \/ (bNew # NULL /\ ~Alive(h1, bNew))
                        IN  /\ heap' = h2
                            /\ ub' = IF ub # "none" THEN ub
                                     ELSE IF uaf THEN "use_after_free"
                                     ELSE ub
                   /\ handles' = [handles EXCEPT ![h].ptr_ = handles[o].ptr_,
                                                 ![h].control_block_ptr = bNew]

\* Mutant of ReleaseAlways: the old block is dropped without being released.
ReleaseAlways_skip(hp, b) == hp

\* Mutant of ReleaseAlways: only a last owner releases, the others decrement.
ReleaseAlways_guarded(hp, b) ==
    IF b = NULL THEN hp
    ELSE IF shared_refs(hp, b) = 1 THEN delete_block(call_deleter(hp, b), b)
    ELSE decrement_shared(hp, b)

\* The release of reset(), reset(T*) and operator=(shared_ptr&&): unconditional.
ReleaseAlways(hp, b) ==
    IF b # NULL THEN delete_block(call_deleter(hp, b), b) ELSE hp

\* reset(), reset(T*) and operator=(shared_ptr&&) on a handle whose block was
\* already freed: the process may fault in call_deleter or in the second delete.
Faults(h) ==
    LET b == handles[h].control_block_ptr IN
    /\ b # NULL /\ ~Alive(heap, b)
    /\ halted' = TRUE
    /\ ub' = UbTouch(heap, b)
    /\ UNCHANGED <<handles, heap>>

\* ... or it goes on.
GoesOn(h) ==
    LET b == handles[h].control_block_ptr IN
    /\ halted' = FALSE
    /\ ub' = IF b # NULL THEN UbTouch(heap, b) ELSE ub

\* shared_ptr& operator=(shared_ptr&& other)
MoveAssign(h, o) ==
    /\ Running
    /\ handles[h].live /\ handles[o].live
    /\ lastOp' = Op("MoveAssign", h, o)
    /\ ThreadsIdle
    /\ \/ Faults(h)
       \/ /\ GoesOn(h)
          /\ heap' = ReleaseAlways(heap, handles[h].control_block_ptr)
          /\ LET cleared == [handles EXCEPT ![h].control_block_ptr = NULL]
                 adopted == [cleared EXCEPT ![h].ptr_ = cleared[o].ptr_,
                                            ![h].control_block_ptr =
                                                cleared[o].control_block_ptr]
             IN  handles' = [adopted EXCEPT ![o].ptr_ = NULL,
                                            ![o].control_block_ptr = NULL]

\* void reset() noexcept: ptr_ is left as it was.
Reset(h) ==
    /\ Running
    /\ handles[h].live
    /\ lastOp' = Op("Reset", h, 0)
    /\ ThreadsIdle
    /\ \/ Faults(h)
       \/ /\ GoesOn(h)
          /\ heap' = ReleaseAlways(heap, handles[h].control_block_ptr)
          /\ handles' = [handles EXCEPT ![h].control_block_ptr = NULL]

\* void reset(T* other) noexcept: a ControlBlock is allocated for a null other too.
ResetPtr(h) ==
    /\ Running
    /\ handles[h].live
    /\ Len(heap) < MaxBlocks
    /\ lastOp' = Op("ResetPtr", h, 0)
    /\ ThreadsIdle
    /\ \/ Faults(h)
       \/ \E other \in {NULL, Len(heap) + 1} :
          /\ GoesOn(h)
          /\ heap' = Append(ReleaseAlways(heap, handles[h].control_block_ptr),
                            NewControlBlock(other, "default"))
          /\ handles' = [handles EXCEPT ![h].ptr_ = other,
                                        ![h].control_block_ptr = Len(heap) + 1]

\* reset() called by a handle that is the only owner of its block.
ResetSoleOwner(h) ==
    /\ use_count(h) = 1
    /\ Reset(h)

\* operator=(shared_ptr&&) onto a handle that has no block.
MoveAssignOntoEmpty(h, o) ==
    /\ handles[h].control_block_ptr = NULL
    /\ MoveAssign(h, o)

\* ------------------------------------------------------------- threads
\* Thread t runs ~shared_ptr() on handle t, or shared_ptr(const shared_ptr&) to
\* build handle t, one atomic access of shared_refs_ / weak_refs_ per step.
Active == ub = "none" /\ ~halted

Block(t) == handles[t].control_block_ptr

Goto(t, label) == pc' = [pc EXCEPT ![t] = label]

\* A step of thread t that touches a block already freed may fault.
ThreadFaults(t, b) ==
    /\ ~Alive(heap, b)
    /\ halted' = TRUE
    /\ ub' = UbTouch(heap, b)
    /\ UNCHANGED <<handles, heap, lastOp, pc, reg, src>>

\* ~shared_ptr(), line 127, and decrement_shared(), line 90: `if (shared_refs_)`.
DecTest(t) ==
    /\ Active
    /\ pc[t] = "idle"
    /\ handles[t].live
    /\ \A u \in Threads : src[u] # t
    /\ IF Block(t) = NULL
       THEN /\ handles' = [handles EXCEPT ![t] = EmptySlot]
            /\ UNCHANGED <<heap, ub, halted, lastOp, pc, reg, src>>
       ELSE \/ ThreadFaults(t, Block(t))
            \/ /\ \E hp \in Touch(heap, Block(t)) :
                    /\ heap' = hp
                    /\ Goto(t, IF shared_refs(hp, Block(t)) # 0
                               THEN "dec_load" ELSE "chk_deleter")
               /\ ub' = UbTouch(heap, Block(t))
               /\ UNCHANGED <<handles, halted, lastOp, reg, src>>

\* decrement_shared(), line 91: the load in `shared_refs_ - 1`.
DecLoad(t) ==
    /\ Active
    /\ pc[t] = "dec_load"
    /\ \/ ThreadFaults(t, Block(t))
       \/ /\ \E hp \in Touch(heap, Block(t)) :
               /\ heap' = hp
               /\ reg' = [reg EXCEPT ![t] = shared_refs(hp, Block(t))]
          /\ Goto(t, "dec_xchg")
          /\ ub' = UbTouch(heap, Block(t))
          /\ UNCHANGED <<handles, halted, lastOp, src>>

\* decrement_shared(), line 91: shared_refs_.exchange(<loaded value> - 1).
DecXchg(t) ==
    /\ Active
    /\ pc[t] = "dec_xchg"
    /\ \/ ThreadFaults(t, Block(t))
       \/ /\ heap' = [heap EXCEPT ![Block(t)].shared_refs_ = (reg[t] - 1) % SizeMod]
          /\ reg' = [reg EXCEPT ![t] = 0]
          /\ Goto(t, "chk_deleter")
          /\ ub' = UbTouch(heap, Block(t))
          /\ UNCHANGED <<handles, halted, lastOp, src>>

\* ~shared_ptr(), lines 129-131: if (shared_refs() == 0) call_deleter().
ChkDeleter(t) ==
    /\ Active
    /\ pc[t] = "chk_deleter"
    /\ \/ ThreadFaults(t, Block(t))
       \/ /\ \E hp \in Touch(heap, Block(t)) :
               heap' = IF shared_refs(hp, Block(t)) = 0
                       THEN call_deleter(hp, Block(t)) ELSE hp
          /\ Goto(t, "chk_shared")
          /\ ub' = UbTouch(heap, Block(t))
          /\ UNCHANGED <<handles, halted, lastOp, reg, src>>

\* ~shared_ptr(), line 132: the left operand, shared_refs() == 0.
ChkShared(t) ==
    /\ Active
    /\ pc[t] = "chk_shared"
    /\ \/ ThreadFaults(t, Block(t))
       \/ /\ \E hp \in Touch(heap, Block(t)) :
               /\ heap' = hp
               /\ IF shared_refs(hp, Block(t)) = 0
                  THEN Goto(t, "chk_weak") /\ handles' = handles
                  ELSE Goto(t, "idle") /\ handles' = [handles EXCEPT ![t] = EmptySlot]
          /\ ub' = UbTouch(heap, Block(t))
          /\ UNCHANGED <<halted, lastOp, reg, src>>

\* ~shared_ptr(), lines 132-134: weak_refs() == 0, then delete control_block_ptr.
ChkWeakDelete(t) ==
    /\ Active
    /\ pc[t] = "chk_weak"
    /\ \/ ThreadFaults(t, Block(t))
       \/ /\ heap' = IF weak_refs(heap, Block(t)) = 0
                     THEN delete_block(heap, Block(t)) ELSE heap
          /\ ub' = UbFree(UbTouch(heap, Block(t)), heap', Block(t))
          /\ handles' = [handles EXCEPT ![t] = EmptySlot]
          /\ Goto(t, "idle")
          /\ UNCHANGED <<halted, lastOp, reg, src>>

\* shared_ptr(const shared_ptr& other), lines 179-181, of a non-empty other that
\* no thread is destroying, and increment_shared(), line 86: the load in
\* `shared_refs_ + 1`.
IncLoad(t, o) ==
    /\ Active
    /\ pc[t] = "idle" /\ ~handles[t].live
    /\ handles[o].live /\ pc[o] = "idle"
    /\ handles[o].control_block_ptr # NULL
    /\ Room(handles[o].control_block_ptr)
    /\ LET b == handles[o].control_block_ptr IN
       \/ ThreadFaults(t, b)
       \/ /\ \E hp \in Touch(heap, b) :
               /\ heap' = hp
               /\ reg' = [reg EXCEPT ![t] = shared_refs(hp, b)]
          /\ src' = [src EXCEPT ![t] = o]
          /\ Goto(t, "inc_xchg")
          /\ ub' = UbTouch(heap, b)
          /\ UNCHANGED <<handles, halted, lastOp>>

\* increment_shared(), line 86: shared_refs_.exchange(<loaded value> + 1).
IncXchg(t) ==
    /\ Active
    /\ pc[t] = "inc_xchg"
    /\ LET b == handles[src[t]].control_block_ptr IN
       \/ ThreadFaults(t, b)
       \/ /\ heap' = [heap EXCEPT ![b].shared_refs_ = (reg[t] + 1) % SizeMod]
          /\ handles' = [handles EXCEPT ![t] =
                 [live |-> TRUE, ptr_ |-> handles[src[t]].ptr_, control_block_ptr |-> b]]
          /\ reg' = [reg EXCEPT ![t] = 0]
          /\ src' = [src EXCEPT ![t] = 0]
          /\ Goto(t, "idle")
          /\ ub' = UbTouch(heap, b)
          /\ UNCHANGED <<halted, lastOp>>

\* ------------------------------------------------------- specifications
\* Every operation of the class, one at a time.
Next ==
    \/ \E h \in Handles : Construct(h)
    \/ \E h \in Handles : ConstructWithDeleter(h)
    \/ \E h, o \in Handles : CopyConstruct(h, o)
    \/ \E h, o \in Handles : MoveConstruct(h, o)
    \/ \E h, o \in Handles : CopyAssign(h, o)
    \/ \E h, o \in Handles : MoveAssign(h, o)
    \/ \E h \in Handles : Reset(h)
    \/ \E h \in Handles : ResetPtr(h)
    \/ \E h \in Handles : Destroy(h)

Spec == Init /\ [][Next]_vars

\* Construction from a raw pointer, copy construction, destruction, and reset()
\* by a sole owner.
NextOwn ==
    \/ \E h \in Handles : Construct(h)
    \/ \E h \in Handles : ConstructWithDeleter(h)
    \/ \E h, o \in Handles : CopyConstruct(h, o)
    \/ \E h \in Handles : ResetSoleOwner(h)
    \/ \E h \in Handles : Destroy(h)

SpecOwn == Init /\ [][NextOwn]_vars

\* Construction, copy construction, copy assignment and destruction.
NextAssign ==
    \/ \E h \in Handles : Construct(h)
    \/ \E h, o \in Handles : CopyConstruct(h, o)
    \/ \E h, o \in Handles : CopyAssign(h, o)
    \/ \E h \in Handles : Destroy(h)

SpecAssign == Init /\ [][NextAssign]_vars
\* Handles to one block destroyed by concurrent threads; construction and copy
\* construction happen while no destructor runs.
NextDestroyThreads ==
    \/ \E h \in Handles : Construct(h)
    \/ \E h, o \in Handles : CopyConstruct(h, o)
    \/ \E t \in Threads : DecTest(t)
    \/ \E t \in Threads : DecLoad(t)
    \/ \E t \in Threads : DecXchg(t)
    \/ \E t \in Threads : ChkDeleter(t)
    \/ \E t \in Threads : ChkShared(t)
    \/ \E t \in Threads : ChkWeakDelete(t)

SpecDestroyThreads == Init /\ [][NextDestroyThreads]_vars

\* Handles copied by concurrent threads; construction and destruction happen
\* while no copy constructor runs.
NextCopyThreads ==
    \/ \E h \in Handles : Construct(h)
    \/ \E h \in Handles : Destroy(h)
    \/ \E t, o \in Threads : IncLoad(t, o)
    \/ \E t \in Threads : IncXchg(t)

SpecCopyThreads == Init /\ [][NextCopyThreads]_vars
\* Construction, copy construction, both moves and destruction.
NextMove ==
    \/ \E h \in Handles : Construct(h)
    \/ \E h, o \in Handles : CopyConstruct(h, o)
    \/ \E h, o \in Handles : MoveConstruct(h, o)
    \/ \E h, o \in Handles : MoveAssign(h, o)
    \/ \E h \in Handles : Destroy(h)

SpecMove == Init /\ [][NextMove]_vars

\* Construction, copy construction, copy assignment, reset() and destruction.
NextAssignReset ==
    \/ \E h \in Handles : Construct(h)
    \/ \E h, o \in Handles : CopyConstruct(h, o)
    \/ \E h, o \in Handles : CopyAssign(h, o)
    \/ \E h \in Handles : Reset(h)
    \/ \E h \in Handles : Destroy(h)

SpecAssignReset == Init /\ [][NextAssignReset]_vars

\* Both constructors, copy and move construction, move assignment onto an empty
\* handle, reset() by a sole owner and destruction.
NextDeleter ==
    \/ \E h \in Handles : Construct(h)
    \/ \E h \in Handles : ConstructWithDeleter(h)
    \/ \E h, o \in Handles : CopyConstruct(h, o)
    \/ \E h, o \in Handles : MoveConstruct(h, o)
    \/ \E h, o \in Handles : MoveAssignOntoEmpty(h, o)
    \/ \E h \in Handles : ResetSoleOwner(h)
    \/ \E h \in Handles : Destroy(h)

SpecDeleter == Init /\ [][NextDeleter]_vars

\* Both constructors, copy construction, reset(T*) and destruction.
NextResetPtr ==
    \/ \E h \in Handles : Construct(h)
    \/ \E h \in Handles : ConstructWithDeleter(h)
    \/ \E h, o \in Handles : CopyConstruct(h, o)
    \/ \E h \in Handles : ResetPtr(h)
    \/ \E h \in Handles : Destroy(h)

SpecResetPtr == Init /\ [][NextResetPtr]_vars


\* Construction, copy and move construction, both assignments and destruction.
NextSeq ==
    \/ \E h \in Handles : Construct(h)
    \/ \E h, o \in Handles : CopyConstruct(h, o)
    \/ \E h, o \in Handles : MoveConstruct(h, o)
    \/ \E h, o \in Handles : CopyAssign(h, o)
    \/ \E h, o \in Handles : MoveAssign(h, o)
    \/ \E h \in Handles : Destroy(h)

SpecSeq == Init /\ [][NextSeq]_vars


\* ------------------------------------------- ControlBlock used on its own
\* One ControlBlock whose count was raised to n by increment_shared(); no handle
\* refers to it. Each thread then calls decrement_shared() on it once.
InitDecrement ==
    /\ handles = [h \in Handles |-> EmptySlot]
    /\ \E n \in 1..MaxRefs :
          heap = <<[NewControlBlock(1, "default") EXCEPT !.shared_refs_ = n]>>
    /\ ub = "none"
    /\ halted = FALSE
    /\ lastOp = NoOp
    /\ pc = [t \in Threads |-> "idle"]
    /\ reg = [t \in Threads |-> 0]
    /\ src = [t \in Threads |-> 0]

\* decrement_shared(), line 90: `if (shared_refs_)`.
DsTest(t) ==
    /\ Active
    /\ pc[t] = "idle"
    /\ Goto(t, IF shared_refs(heap, 1) # 0 THEN "ds_load" ELSE "ds_done")
    /\ UNCHANGED <<handles, heap, ub, halted, lastOp, reg, src>>

\* decrement_shared(), line 91: the load in `shared_refs_ - 1`.
DsLoad(t) ==
    /\ Active
    /\ pc[t] = "ds_load"
    /\ reg' = [reg EXCEPT ![t] = shared_refs(heap, 1)]
    /\ Goto(t, "ds_xchg")
    /\ UNCHANGED <<handles, heap, ub, halted, lastOp, src>>

\* decrement_shared(), line 91: shared_refs_.exchange(<loaded value> - 1).
DsXchg(t) ==
    /\ Active
    /\ pc[t] = "ds_xchg"
    /\ heap' = [heap EXCEPT ![1].shared_refs_ = (reg[t] - 1) % SizeMod]
    /\ reg' = [reg EXCEPT ![t] = 0]
    /\ Goto(t, "ds_done")
    /\ UNCHANGED <<handles, ub, halted, lastOp, src>>

NextDecrement ==
    \/ \E t \in Threads : DsTest(t)
    \/ \E t \in Threads : DsLoad(t)
    \/ \E t \in Threads : DsXchg(t)

SpecDecrement == InitDecrement /\ [][NextDecrement]_vars


\* ------------------------------------------------------------ observers
\* The payload at address p has been handed to a deleter.
PayloadReleased(hp, p) == hp[p].freed > 0 \/ hp[p].custom > 0

\* The observers are const: they change no handle and no block, and lastOp keeps
\* naming the last operation that is not an observer.
\* long use_count() const: reads the count through control_block_ptr; on a block
\* already freed the read is undefined (a fault, or some value).
UseCount(h) ==
    /\ Running
    /\ handles[h].live
    /\ UNCHANGED <<lastOp, pc, reg, src>>
    /\ IF handles[h].control_block_ptr = NULL
       THEN UNCHANGED <<handles, heap, ub, halted>>
       ELSE \/ Faults(h)
            \/ /\ GoesOn(h)
               /\ UNCHANGED <<handles, heap>>

\* T& operator*() const: reads *ptr_, whatever control_block_ptr is.
Dereference(h) ==
    /\ Running
    /\ handles[h].live
    /\ UNCHANGED <<lastOp, pc, reg, src>>
    /\ LET p == handles[h].ptr_ IN
       /\ ub' = IF p = NULL THEN "null_deref"
                ELSE IF PayloadReleased(heap, p) THEN "use_after_free"
                ELSE ub
       /\ \/ halted' = FALSE
          \/ halted' = TRUE /\ ub' # "none"
    /\ UNCHANGED <<handles, heap>>

\* Construction, copy construction, reset(), the observers and destruction.
NextReset ==
    \/ \E h \in Handles : Construct(h)
    \/ \E h, o \in Handles : CopyConstruct(h, o)
    \/ \E h \in Handles : Reset(h)
    \/ \E h \in Handles : UseCount(h)
    \/ \E h \in Handles : Dereference(h)
    \/ \E h \in Handles : Destroy(h)

SpecReset == Init /\ [][NextReset]_vars


\* Construction, copy construction, copy assignment, move assignment onto an
\* empty handle and destruction.
NextNoRelease ==
    \/ \E h \in Handles : Construct(h)
    \/ \E h, o \in Handles : CopyConstruct(h, o)
    \/ \E h, o \in Handles : CopyAssign(h, o)
    \/ \E h, o \in Handles : MoveAssignOntoEmpty(h, o)
    \/ \E h \in Handles : Destroy(h)

SpecNoRelease == Init /\ [][NextNoRelease]_vars

\* ---------------------------------------------------------------- claims
Blocks == 1..Len(heap)

\* The handles of hs that reference block b.
OwnersIn(hs, b) == {h \in Handles : hs[h].live /\ hs[h].control_block_ptr = b}

\* The handles that reference block b.
Owners(b) == OwnersIn(handles, b)

Quiescent == \A t \in Threads : pc[t] = "idle"

\* Nothing of block b of heap hp has been released.
UntouchedIn(hp, b) == hp[b].calls = 0 /\ hp[b].freed = 0 /\ hp[b].deletes = 0

\* Nothing of block b has been released.
Untouched(b) == UntouchedIn(heap, b)

\* C1: in runs of construction, copy construction, destruction and reset() by a
\* sole owner, the deleter of a block is invoked at most once and the block is
\* deleted at most once, and once no handle references the block both have
\* happened exactly once.
C1_ReleasedExactlyOnce ==
    \A b \in Blocks :
        /\ heap[b].calls <= 1
        /\ heap[b].deletes <= 1
        /\ Owners(b) = {} => heap[b].calls = 1 /\ heap[b].deletes = 1

\* The last handle of a block has just been destroyed.
C1_Witness ==
    \E b \in Blocks :
        /\ lastOp = [op |-> "Destroy", b |-> b]
        /\ Owners(b) = {}
        /\ heap[b].calls = 1 /\ heap[b].deletes = 1

\* C2: when threads destroy handles to one block concurrently, the deleter is
\* invoked by exactly one of them and the block deleted by exactly one of them,
\* and no thread reads a block already deleted.
C2_ConcurrentDestroyReleasesOnce ==
    /\ ub # "use_after_free"
    /\ ub # "double_free"
    /\ \A b \in Blocks :
        /\ heap[b].calls <= 1
        /\ heap[b].deletes <= 1
        /\ (Quiescent /\ Owners(b) = {}) => heap[b].calls = 1 /\ heap[b].deletes = 1

\* C3: when threads copy handles to one block concurrently no increment is lost:
\* once the copies are made the count is the number of handles, and no block
\* that a handle references has been released.
C3_NoIncrementLost ==
    \A b \in Blocks :
        Owners(b) # {} =>
            /\ Untouched(b)
            /\ Quiescent => heap[b].shared_refs_ = Cardinality(Owners(b))

\* C4: every handle that has a block reports as use_count() the number of
\* handles that reference this block: 1 for the handle just constructed from a
\* raw pointer, N for each of N simultaneous copies.
C4_UseCountIsNumberOfCopies ==
    \A h \in Handles :
        (handles[h].live /\ bool(h)) =>
            use_count(h) = Cardinality(Owners(handles[h].control_block_ptr))

\* As many copies of one handle as there are handle objects, just completed.
C4_Witness ==
    /\ lastOp.op = "CopyConstruct"
    /\ \A h \in Handles : handles[h].live /\ handles[h].control_block_ptr = 1
    /\ \A h \in Handles : use_count(h) = NumHandles

\* C5: a handle left as the only one of its block, the other copies destroyed,
\* reports use_count() 1, and neither has the deleter been invoked on the payload
\* nor the block been deleted.
C5_LastCopyKeepsPayload ==
    \A h \in Handles :
        (handles[h].live /\ bool(h) /\ Owners(handles[h].control_block_ptr) = {h}) =>
            /\ use_count(h) = 1
            /\ Untouched(handles[h].control_block_ptr)

\* A copy of a block has just been destroyed and one handle of the block is left.
C5_Witness ==
    \E h \in Handles :
        /\ handles[h].live /\ bool(h)
        /\ lastOp = [op |-> "Destroy", b |-> handles[h].control_block_ptr]
        /\ Owners(handles[h].control_block_ptr) = {h}
        /\ use_count(h) = 1

\* C6: a move of a non-empty h1 into h2, by construction of h2 or by assignment
\* onto an empty h2, leaves h2 with h1's pointer and block, the count unchanged,
\* and h1 empty.
C6_MoveTransfersOwnership ==
    [][\A h, o \in Handles :
          LET b == handles[o].control_block_ptr IN
          ( /\ b # NULL
            /\ \/ MoveConstruct(h, o)
               \/ (MoveAssign(h, o) /\ h # o /\ handles[h].control_block_ptr = NULL) )
          => /\ handles'[h].ptr_ = handles[o].ptr_
             /\ handles'[h].control_block_ptr = b
             /\ heap'[b].shared_refs_ = heap[b].shared_refs_
             /\ ~bool(o)' /\ get(o)' = NULL /\ use_count(o)' = 0
      ]_vars

\* C7: in runs of construction, copy construction, copy assignment and
\* destruction, a block that no handle references any more has had its deleter
\* invoked and has been deleted.
C7_ReleasedWhenUnowned ==
    \A b \in Blocks :
        Owners(b) = {} => heap[b].calls >= 1 /\ heap[b].deletes >= 1

\* C8: copy assignment of a handle of another block onto h, whose block B has
\* k >= 1 other handles, leaves each of these reporting use_count() k and B not
\* released.
C8_CopyAssignDecrements ==
    [][\A h, o \in Handles :
          LET B == handles[h].control_block_ptr
              others == Owners(B) \ {h}
          IN  ( /\ CopyAssign(h, o)
                /\ h # o
                /\ B # NULL
                /\ handles[o].control_block_ptr # B
                /\ others # {} )
              => /\ \A g \in others : use_count(g)' = Cardinality(others)
                 /\ UntouchedIn(heap', B)
      ]_vars

\* C9: copy construction from a handle without a block dereferences no absent
\* block and yields an empty handle.
C9_CopyOfEmptyIsEmpty ==
    [][\A h, o \in Handles :
          (CopyConstruct(h, o) /\ handles[o].control_block_ptr = NULL)
          => /\ ub' = "none" /\ ~halted'
             /\ handles'[h].live
             /\ use_count(h)' = 0 /\ get(h)' = NULL /\ ~bool(h)'
      ]_vars

\* C10: a handle with a block holds the payload pointer of that block, which is
\* not null, and a handle without a block holds a null pointer.
C10_RawMatchesBlock ==
    \A h \in Handles :
        handles[h].live =>
            IF bool(h)
            THEN get(h) = heap[handles[h].control_block_ptr].ptr_ /\ get(h) # NULL
            ELSE get(h) = NULL

\* C11: a copy assignment of a handle to itself changes no handle and no block:
\* use_count() and get() stay as they were, no deleter is invoked and no block
\* is deleted.
C11_SelfAssignIsNoOp ==
    [][\A h \in Handles : CopyAssign(h, h) => (handles' = handles /\ heap' = heap /\ ub' = ub)
      ]_vars

\* The only handle of the program, sole owner of its block, has just been
\* assigned to itself (an assignment needs two live operands).
C11_Witness ==
    \E h \in Handles :
        /\ lastOp = [op |-> "CopyAssign", b |-> handles[h].control_block_ptr]
        /\ \A g \in Handles : handles[g].live <=> g = h
        /\ bool(h) /\ use_count(h) = 1
        /\ Untouched(handles[h].control_block_ptr)

\* C12: copy assignment of an empty handle onto a sole owner releases the old
\* payload exactly once and leaves the destination empty (use_count() 0, get()
\* null); copy assignment of a non-empty handle with count c onto an empty
\* handle makes both report c + 1 and releases nothing.
C12_AssignEmptyAndNonEmpty ==
    [][\A h, o \in Handles :
          LET B == handles[h].control_block_ptr
              S == handles[o].control_block_ptr
          IN  /\ ( /\ CopyAssign(h, o) /\ h # o
                   /\ S = NULL
                   /\ B # NULL /\ Untouched(B) /\ Owners(B) = {h} /\ use_count(h) = 1 )
                 => /\ heap'[B].calls = 1 /\ heap'[B].deletes = 1
                    /\ use_count(h)' = 0 /\ get(h)' = NULL
              /\ ( /\ CopyAssign(h, o) /\ h # o
                   /\ B = NULL
                   /\ S # NULL /\ Untouched(S) )
                 => /\ use_count(h)' = heap[S].shared_refs_ + 1
                    /\ use_count(o)' = heap[S].shared_refs_ + 1
                    /\ \A b \in Blocks : heap'[b].calls = heap[b].calls
                                         /\ heap'[b].deletes = heap[b].deletes
      ]_vars

\* C13: a block constructed with a user-supplied deleter is released by that
\* deleter, once, and never by the default deleter; a block constructed without
\* one is released by the default deleter, once.  This holds whether the last
\* owner is the original handle, a copy or the target of a move, and whether it
\* is destroyed or, as sole owner, reset.
C13_DeleterDispatch ==
    \A b \in Blocks :
        /\ heap[b].calls <= 1
        /\ Owners(b) = {} => heap[b].calls = 1
        /\ IF heap[b].deleter_ptr_ = "custom"
           THEN heap[b].custom = heap[b].calls /\ heap[b].freed = 0
           ELSE heap[b].freed = heap[b].calls /\ heap[b].custom = 0

\* The last owner of a block with a user-supplied deleter has just been
\* destroyed.
C13_Witness ==
    \E b \in Blocks :
        /\ lastOp = [op |-> "Destroy", b |-> b]
        /\ heap[b].deleter_ptr_ = "custom"
        /\ Owners(b) = {}
        /\ heap[b].custom = 1 /\ heap[b].freed = 0

\* C14: reset(p) on a handle that is empty or the sole owner of its block B
\* releases B's payload exactly once (and B), and leaves the handle with a
\* freshly allocated block, distinct from B and shared with no other handle,
\* that holds p, count 1 and the default deleter; get() is p, use_count() is 1.
C14_ResetPtrAdoptsFresh ==
    [][\A h \in Handles :
          LET B == handles[h].control_block_ptr
              fresh == Len(heap) + 1
          IN  ( /\ ResetPtr(h)
                /\ B # NULL => (Untouched(B) /\ Owners(B) = {h} /\ use_count(h) = 1) )
              => /\ Len(heap') = fresh
                 /\ handles'[h].control_block_ptr = fresh /\ fresh # B
                 /\ OwnersIn(handles', fresh) = {h}
                 /\ use_count(h)' = 1
                 /\ get(h)' = heap'[fresh].ptr_ /\ get(h)' \in {NULL, fresh}
                 /\ heap'[fresh].deleter_ptr_ = "default" /\ UntouchedIn(heap', fresh)
                 /\ B # NULL => /\ heap'[B].calls = 1 /\ heap'[B].deletes = 1
                                /\ heap[B].ptr_ # NULL =>
                                       heap'[B].freed + heap'[B].custom = 1
                 /\ \A b \in Blocks \ {B} : heap'[b] = heap[b]
      ]_vars

\* reset(p) has just been called by the sole owner of a block.
C14_Witness ==
    \E h \in Handles :
        /\ lastOp.op = "ResetPtr" /\ lastOp.b # NULL
        /\ handles[h].live /\ handles[h].control_block_ptr = Len(heap)
        /\ handles[h].control_block_ptr # lastOp.b
        /\ heap[lastOp.b].calls = 1 /\ heap[lastOp.b].deletes = 1
        /\ use_count(h) = 1 /\ get(h) # NULL

\* C15: under construct, copy-construct, copy-assignment, move-construct,
\* move-assignment and destroy, the shared count of every ControlBlock that has
\* not been destroyed is the number of handles that reference it.
C15_CountIsNumberOfOwners ==
    \A b \in Blocks :
        Alive(heap, b) => shared_refs(heap, b) = Cardinality(Owners(b))

\* C16: decrement_shared() never underflows: a call that finds the count zero
\* leaves it zero, and in every interleaving of concurrent calls each exchange
\* lowers a nonzero count by exactly one, so the count never wraps to the
\* maximum value and ends at max(0, initial - number of calls).
C16_DecrementNeverUnderflows ==
    [][\A t \in Threads :
          /\ (DsTest(t) /\ shared_refs(heap, 1) = 0)
                => pc'[t] = "ds_done" /\ shared_refs(heap', 1) = 0
          /\ DsXchg(t)
                => /\ shared_refs(heap, 1) # 0
                   /\ shared_refs(heap', 1) = shared_refs(heap, 1) - 1
      ]_vars

\* C17: move assignment onto a handle that owns block B treats B as the
\* destructor would: B's deleter is invoked and B deleted exactly when the
\* destination was B's only owner; when other handles reference B its count
\* drops by one and nothing of B is released. (Stated for a source that does not
\* reference B.)
C17_MoveAssignReleasesLikeDestructor ==
    [][\A h, o \in Handles :
          LET B == handles[h].control_block_ptr IN
          ( /\ MoveAssign(h, o)
            /\ B # NULL /\ Alive(heap, B) /\ Untouched(B)
            /\ handles[o].control_block_ptr # B )
          => IF Owners(B) = {h}
             THEN heap'[B].calls = 1 /\ heap'[B].deletes = 1
             ELSE /\ shared_refs(heap', B) = shared_refs(heap, B) - 1
                  /\ UntouchedIn(heap', B)
      ]_vars

\* C18: move assignment dst = std::move(src) leaves the ControlBlock that src
\* referenced as it was (same count, deleter not invoked, not deleted), for every
\* pair of handles: also when dst and src reference the same block and when dst
\* and src are the same handle.
C18_MoveAssignLeavesSourceBlock ==
    [][\A h, o \in Handles :
          LET S == handles[o].control_block_ptr IN
          ( /\ MoveAssign(h, o)
            /\ S # NULL /\ Alive(heap, S) /\ Untouched(S) )
          => heap'[S] = heap[S]
      ]_vars

\* C19 as stated: reset() on a handle whose block other handles still reference
\* invokes the deleter and deletes the block whatever the count is, the other
\* handles keep referencing it, their later use_count(), dereference or
\* destruction is a use after release, and such a destruction releases the block
\* a second time.
C19_ResetDanglesAndDestroyReleasesAgain ==
    [][\A h \in Handles :
          LET B == handles[h].control_block_ptr IN
          /\ (Reset(h) /\ B # NULL /\ Untouched(B) /\ Owners(B) # {h})
                => /\ heap'[B].calls = 1 /\ heap'[B].deletes = 1
                   /\ OwnersIn(handles', B) = Owners(B) \ {h}
                   /\ OwnersIn(handles', B) # {}
          /\ ((UseCount(h) \/ Destroy(h)) /\ B # NULL /\ ~Alive(heap, B))
                => ub' = "use_after_free"
          /\ (Dereference(h) /\ B # NULL /\ ~Alive(heap, B) /\ get(h) = B)
                => ub' = "use_after_free"
          /\ (Destroy(h) /\ B # NULL /\ ~Alive(heap, B) /\ ~halted')
                => /\ heap'[B].calls = heap[B].calls + 1
                   /\ heap'[B].deletes = heap[B].deletes + 1
      ]_vars

\* C19, amended: as above, but the destruction of the dangling handle decrements
\* the count it finds in the destroyed block and releases a second time only
\* when that leaves zero; reset() did not decrement, so with the count of two or
\* more co-owners still in memory the destruction releases nothing.
C19_ResetDanglesAndDestroyDecrements ==
    [][\A h \in Handles :
          LET B == handles[h].control_block_ptr IN
          /\ (Reset(h) /\ B # NULL /\ Untouched(B) /\ Owners(B) # {h})
                => /\ heap'[B].calls = 1 /\ heap'[B].deletes = 1
                   /\ shared_refs(heap', B) = shared_refs(heap, B)
                   /\ OwnersIn(handles', B) = Owners(B) \ {h}
                   /\ OwnersIn(handles', B) # {}
          /\ ((UseCount(h) \/ Destroy(h)) /\ B # NULL /\ ~Alive(heap, B))
                => ub' = "use_after_free"
          /\ (Dereference(h) /\ B # NULL /\ ~Alive(heap, B) /\ get(h) = B)
                => ub' = "use_after_free"
          /\ (Destroy(h) /\ B # NULL /\ ~Alive(heap, B) /\ ~halted')
                => LET again == IF shared_refs(heap', B) = 0 THEN 1 ELSE 0
                   IN  /\ heap'[B].calls = heap[B].calls + again
                       /\ heap'[B].deletes = heap[B].deletes + again
      ]_vars

\* A handle left dangling by reset() has been destroyed without a second
\* release: the block kept the count of its two co-owners, less one.
C19_Witness ==
    /\ lastOp.op = "Destroy" /\ lastOp.b # NULL
    /\ ub = "use_after_free" /\ ~halted
    /\ heap[lastOp.b].calls = 1 /\ heap[lastOp.b].deletes = 1
    /\ shared_refs(heap, lastOp.b) = 1

\* C20: under construction from distinct raw pointers, copy construction, copy
\* assignment between any two handles, move assignment onto an empty handle and
\* destruction, every handle whose boolean conversion is true references a
\* ControlBlock that has not been deleted and a payload on which no deleter has
\* been invoked.
C20_NoDanglingHandle ==
    \A h \in Handles :
        (handles[h].live /\ bool(h))
            => /\ Alive(heap, handles[h].control_block_ptr)
               /\ Untouched(handles[h].control_block_ptr)
               /\ get(h) = handles[h].control_block_ptr
               /\ ~PayloadReleased(heap, get(h))

\* A copy assignment has released one block while two handles share another.
C20_Witness ==
    /\ lastOp.op = "CopyAssign" /\ lastOp.b # NULL
    /\ heap[lastOp.b].calls = 1 /\ heap[lastOp.b].deletes = 1
    /\ \E h, g \in Handles :
          /\ h # g /\ handles[h].live /\ handles[g].live /\ bool(h)
          /\ handles[h].control_block_ptr = handles[g].control_block_ptr
====
